---- MODULE Spec2Model ----
(***************************************************************************)
(* The avatar upload flow of hedwig: the Pages API route                   *)
(* pages/api/upload-avatar.js (handler) and the App Router route handler   *)
(* kept in app/upload-test/page.js (POST), both writing into the one       *)
(* directory public/uploads/avatars of the server's file system.           *)
(*                                                                         *)
(* The file system is the directory's existence and a map from the paths   *)
(* of the files in it to the bytes they hold; the bytes of a request are   *)
(* named by the request, so that two uploads never carry "the same" bytes  *)
(* and an overwrite is visible.  The multipart parser (formidable) is a    *)
(* library: it is modelled by its contract as the handlers use it (one     *)
(* temporary file per file part, written into form.uploadDir, handed over  *)
(* as filepath; an error and no files for a body it cannot parse).         *)
(* Outcomes of rename and unlink are the file system's choice.             *)
(***************************************************************************)
EXTENDS Integers, Sequences, FiniteSets, TLC

\* Bounds of the model.
MaxReq == 2
MaxTime == 2
MaxSubmit == 2

Reqs == 1..MaxReq

\* The server processes that load the Pages route module, in the order they
\* start to.
Procs == {1, 2}

\* Inputs.
Filenames == {"a.png"}
Fields == {"avatar", "photo"}
Methods == {"POST", "GET"}
Routes == {"pages", "app"}

Undefined == "undefined"

\* The submits of the upload test page that start a fetch.
Submits == 1..MaxSubmit

\* useState(null): no file selected.
Null == "null"

\* A file part of a multipart body: the field it is sent under and the
\* filename its Content-Disposition declares ("" when it declares none).
Parts ==
  [field : {"avatar"}, originalFilename : Filenames \cup {""}] \cup
  [field : Fields \ {"avatar"}, originalFilename : {"a.png"}]

\* A request body: unparseable, or zero or one file part.
Bodies ==
  {[malformed |-> TRUE, parts |-> <<>>]} \cup
  {[malformed |-> FALSE, parts |-> ps] : ps \in {<<>>} \cup {<<p>> : p \in Parts}}

\* Messages of the errors the parser reports.
ParseErrMsgs == {"Invalid Formidable options", "bad content-type header"}

uploadDir == "public/uploads/avatars"

VARIABLES
  dirExists,   \* whether uploadDir exists
  files,       \* path of each file in uploadDir |-> the request whose bytes it holds
  now,         \* the wall clock, in milliseconds, as last read
  loader,      \* per server process: where the load of the Pages route module stands
  req,         \* per request: its input, the handler's locals and position, its responses
  page,        \* the upload test page: its React state and the handler that ran last
  fetches      \* the fetches the page started: pending, or settled with their outcome

vars == <<dirExists, files, now, loader, req, page, fetches>>

----------------------------------------------------------------------------
\* Pure helpers.

\* String.prototype.includes
Includes(s, n) ==
  \E i \in 1..(Len(s) - Len(n) + 1) : SubSeq(s, i, i + Len(n) - 1) = n

\* path.join(dir, name)
PathJoin(dir, name) == dir \o "/" \o name

\* The path formidable gives the temporary file of part i of request r: a
\* fresh name inside form.uploadDir.
TempPath(dir, r, i) == PathJoin(dir, "upload_" \o ToString(r) \o "_" \o ToString(i))

\* A mutant of UniqueFilename: the timestamp left out.
UniqueFilenameNoStamp(t, originalFilename) == originalFilename

\* Date.now() + '-' + anUploadedFile.originalFilename
UniqueFilename(t, originalFilename) == ToString(t) \o "-" \o originalFilename

\* A mutant of ImageUrl: the temporary name leaked instead of the stored one.
ImageUrlBare(uniqueFilename) == "/uploads/" \o uniqueFilename

\* `/uploads/avatars/${uniqueFilename}`
ImageUrl(uniqueFilename) == "/uploads/avatars/" \o uniqueFilename

\* A mutant of Mkdir: without { recursive: true } mkdir throws EEXIST on an
\* existing directory.
MkdirPlain(exists) == [ok |-> ~exists, exists |-> TRUE]

\* fs.mkdirSync(uploadDir, { recursive: true }) / fs.mkdir(uploadDir, { recursive: true }):
\* creates the directory when it is missing, succeeds when it exists.
Mkdir(exists) == [ok |-> TRUE, exists |-> TRUE]

\* A response: status, the JSON body's error or imageUrl, the Allow header.
Response(status, error, imageUrl, allow) ==
  [status |-> status, error |-> error, imageUrl |-> imageUrl, allow |-> allow]

JsonError(status, error) == Response(status, error, "", <<>>)

\* files.avatar: the parsed files sent under the field 'avatar' (an array).
FilesAvatar(parsed) == SelectSeq(parsed, LAMBDA f : f.field = "avatar")

\* An error as thrown by fs or by the parser: a message and no oldPath property.
ThrownError(message) == [message |-> message, oldPath |-> Undefined]

\* The file system after fs.rename(oldPath, newPath): the bytes move to newPath,
\* replacing whatever newPath held.
Renamed(fs, oldPath, newPath) ==
  [p \in (DOMAIN fs \ {oldPath}) \cup {newPath} |->
     IF p = newPath THEN fs[oldPath] ELSE fs[p]]

\* The file system after fs.unlink(path).
Unlinked(fs, path) == [p \in DOMAIN fs \ {path} |-> fs[p]]

\* The parser on a body: an error for a body it cannot parse or a directory it
\* cannot write to; else one parsed file per file part, each with the path of
\* its temporary file in dir.
FormParse(r, body, dir, exists, msg) ==
  IF body.malformed \/ (body.parts # <<>> /\ ~exists)
  THEN [err |-> msg, files |-> <<>>]
  ELSE [err |-> "",
        files |-> [i \in 1..Len(body.parts) |->
                     [field |-> body.parts[i].field,
                      originalFilename |-> body.parts[i].originalFilename,
                      filepath |-> TempPath(dir, r, i)]]]

\* The file system after the parser wrote the temporary files of `parsed`.
WithTemps(fs, r, parsed) ==
  LET paths == {parsed[i].filepath : i \in 1..Len(parsed)}
  IN  [p \in DOMAIN fs \cup paths |-> IF p \in paths THEN r ELSE fs[p]]

----------------------------------------------------------------------------
\* The state after construction: the directory is there or not, no module is
\* loaded, no request has arrived.

IdleReq ==
  [pc |-> "idle", route |-> "pages", method |-> "POST",
   body |-> [malformed |-> FALSE, parts |-> <<>>],
   err |-> "", parsed |-> <<>>,
   t |-> 0, uniqueFilename |-> "", oldPath |-> "", newPath |-> "",
   renameErr |-> FALSE,
   nMkdir |-> 0, nParse |-> 0, nRename |-> 0, nUnlink |-> 0,
   mkdirFailed |-> FALSE, madeDir |-> FALSE, unlinkFailed |-> FALSE,
   log |-> {}, sent |-> <<>>]

Init ==
  /\ dirExists \in BOOLEAN
  /\ files = <<>>
  /\ now = 1
  /\ loader = [p \in Procs |-> "start"]
  /\ req = [r \in Reqs |-> IdleReq]
  /\ page = [file |-> Null, message |-> "", uploadedImageUrl |-> "", last |-> "render"]
  /\ fetches = [i \in Submits |-> [state |-> "none"]]

----------------------------------------------------------------------------
\* Loading the Pages route module in a server process: the directory is
\* created when existsSync finds it missing.

LoadCheck(p) ==
  /\ loader[p] = "start"
  /\ \A q \in Procs : q < p => loader[q] # "start"
  /\ loader' = [loader EXCEPT ![p] = IF dirExists THEN "loaded" ELSE "mkdir"]
  /\ UNCHANGED <<page, fetches, dirExists, files, now, req>>

LoadMkdir(p) ==
  /\ loader[p] = "mkdir"
  /\ LET m == Mkdir(dirExists) IN
       /\ loader' = [loader EXCEPT ![p] = IF m.ok THEN "loaded" ELSE "failed"]
       /\ dirExists' = IF m.ok THEN m.exists ELSE dirExists
  /\ UNCHANGED <<page, fetches, files, now, req>>

\* Date.now(): the wall clock as it stands or after it advanced.
DateNow(last) == last..MaxTime

----------------------------------------------------------------------------
\* The responses of the two handlers.

\* A mutant of MethodNotAllowed: the Allow header forgotten.
MethodNotAllowedNoHeader == Response(405, "Method not allowed", "", <<>>)

\* res.setHeader('Allow', ['POST']); res.status(405).json({ error: 'Method not allowed' })
MethodNotAllowed == Response(405, "Method not allowed", "", <<"POST">>)

\* res.status(200).json({ imageUrl })
Success(uniqueFilename) == Response(200, "", ImageUrl(uniqueFilename), <<>>)

RenameErrMsg == "EXDEV: cross-device link not permitted, rename"

\* The catch block of POST: the response it returns and the path it tries to
\* unlink first (Undefined when it tries none).
AppCatch(error) ==
  IF Includes(error.message, "Invalid Formidable options")
  THEN [unlink |-> Undefined,
        resp |-> JsonError(500, "Error parsing form data. Check server logs for formidable issues.")]
  ELSE [unlink |-> error.oldPath,
        resp |-> JsonError(500, "Upload failed: " \o error.message)]

\* POST ends in its catch block with `error`; rq is the request's record so far.
AppFail(r, rq, error) ==
  LET c == AppCatch(error) IN
  \E unlinkOk \in BOOLEAN :
    LET tries == c.unlink # Undefined
        gone == tries /\ unlinkOk /\ c.unlink \in DOMAIN files
    IN
    /\ files' = IF gone THEN Unlinked(files, c.unlink) ELSE files
    /\ req' = [req EXCEPT ![r] =
         [rq EXCEPT !.pc = "done",
                    !.nUnlink = IF tries THEN @ + 1 ELSE @,
                    !.unlinkFailed = tries /\ ~gone,
                    !.log = @ \cup {"Upload error:"} \cup
                            (IF tries /\ ~gone
                             THEN {"Error deleting temporary file during error handling:"}
                             ELSE {}),
                    !.sent = Append(@, c.resp)]]

----------------------------------------------------------------------------
\* A request arrives.  The Pages route answers once its module is loaded; the
\* App Router route exports POST alone.  Requests are numbered in the order
\* they arrive.

Receive(r) ==
  /\ req[r].pc = "idle"
  /\ \A q \in Reqs : q < r => req[q].pc # "idle"
  /\ \E route \in Routes, method \in Methods, body \in Bodies :
       /\ route = "pages" => \E p \in Procs : loader[p] = "loaded"
       /\ route = "app" => method = "POST"
       /\ method # "POST" => body = IdleReq.body
       /\ req' = [req EXCEPT ![r] =
            [@ EXCEPT !.pc = "handler", !.route = route, !.method = method, !.body = body]]
  /\ UNCHANGED <<page, fetches, dirExists, files, now, loader>>

\* handler, else branch: any method but POST.
Reject(r) ==
  /\ req[r].pc = "handler"
  /\ req[r].route = "pages"
  /\ req[r].method # "POST"
  /\ req' = [req EXCEPT ![r] =
       [@ EXCEPT !.pc = "done", !.sent = Append(@, MethodNotAllowed)]]
  /\ UNCHANGED <<page, fetches, dirExists, files, now, loader>>

\* POST: await fs.mkdir(uploadDir, { recursive: true })
EnsureDir(r) ==
  /\ req[r].pc = "handler"
  /\ req[r].route = "app"
  /\ LET m == Mkdir(dirExists)
         rq == [req[r] EXCEPT !.nMkdir = @ + 1,
                              !.mkdirFailed = ~m.ok,
                              !.madeDir = m.ok /\ ~dirExists]
     IN IF m.ok
        THEN /\ dirExists' = m.exists
             /\ req' = [req EXCEPT ![r] = [rq EXCEPT !.pc = "parse"]]
             /\ files' = files
        ELSE /\ dirExists' = dirExists
             /\ AppFail(r, rq, ThrownError("EEXIST: file already exists, mkdir"))
  /\ UNCHANGED <<page, fetches, now, loader>>

\* form.parse(req, ...): the parser reads the body and writes the temporary
\* files into form.uploadDir = uploadDir.
Parse(r) ==
  /\ \/ req[r].pc = "parse"
     \/ req[r].pc = "handler" /\ req[r].route = "pages" /\ req[r].method = "POST"
  /\ \E msg \in ParseErrMsgs :
       LET res == FormParse(r, req[r].body, uploadDir, dirExists, msg) IN
       /\ files' = WithTemps(files, r, res.files)
       /\ req' = [req EXCEPT ![r] =
            [@ EXCEPT !.pc = "parsed", !.nParse = @ + 1,
                      !.err = res.err, !.parsed = res.files]]
  /\ UNCHANGED <<page, fetches, dirExists, now, loader>>

\* A mutant of ParseFailed: the parser's error ignored.
ParseFailedNever(err) == FALSE

\* if (err) in the parse callback, which the promise wrapper turns into a rejection.
ParseFailed(err) == err # ""

\* What both handlers do with the parsed files: the 400 they answer with, or
\* the names of the rename to come (t is Date.now()).
Checked(parsed, t) ==
  LET file == FilesAvatar(parsed) IN
  IF file = <<>>
  THEN [ok |-> FALSE, resp |-> JsonError(400, "No file uploaded.")]
  ELSE LET anUploadedFile == Head(file) IN
       IF anUploadedFile.originalFilename = ""
       THEN [ok |-> FALSE, resp |-> JsonError(400, "No file uploaded or filename is missing.")]
       ELSE LET uniqueFilename == UniqueFilename(t, anUploadedFile.originalFilename) IN
            [ok |-> TRUE,
             uniqueFilename |-> uniqueFilename,
             oldPath |-> anUploadedFile.filepath,
             newPath |-> PathJoin(uploadDir, uniqueFilename)]

\* The parse callback of handler up to the rename, and POST from the parse to
\* the rename.
Validate(r) ==
  /\ req[r].pc = "parsed"
  /\ IF ParseFailed(req[r].err)
     THEN IF req[r].route = "pages"
          THEN /\ req' = [req EXCEPT ![r] =
                    [@ EXCEPT !.pc = "done",
                              !.log = @ \cup {"Error parsing form:"},
                              !.sent = Append(@, JsonError(500, "Error parsing form data."))]]
               /\ files' = files
               /\ now' = now
          ELSE /\ AppFail(r, req[r], ThrownError(req[r].err))
               /\ now' = now
     ELSE \E t \in DateNow(now) :
          LET c == Checked(req[r].parsed, t) IN
          /\ files' = files
          /\ now' = IF c.ok THEN t ELSE now
          /\ req' = [req EXCEPT ![r] =
               IF c.ok
               THEN [@ EXCEPT !.pc = "rename",
                              !.t = t,
                              !.uniqueFilename = c.uniqueFilename,
                              !.oldPath = c.oldPath,
                              !.newPath = c.newPath]
               ELSE [@ EXCEPT !.pc = "done", !.sent = Append(@, c.resp)]]
  /\ UNCHANGED <<page, fetches, dirExists, loader>>

\* fs.renameSync(oldPath, newPath) / await fs.rename(oldPath, newPath), and the
\* success response after it; on failure handler goes on to its cleanup and
\* POST to its catch block.
Rename(r) ==
  /\ req[r].pc = "rename"
  /\ \E ok \in BOOLEAN :
       LET rq == [req[r] EXCEPT !.nRename = @ + 1, !.renameErr = ~ok] IN
       IF ok
       THEN /\ files' = Renamed(files, rq.oldPath, rq.newPath)
            /\ req' = [req EXCEPT ![r] =
                 [rq EXCEPT !.pc = "done", !.sent = Append(@, Success(rq.uniqueFilename))]]
       ELSE IF rq.route = "pages"
            THEN /\ files' = files
                 /\ req' = [req EXCEPT ![r] =
                      [rq EXCEPT !.pc = "cleanup", !.log = @ \cup {"Error renaming file:"}]]
            ELSE AppFail(r, rq, ThrownError(RenameErrMsg))
  /\ UNCHANGED <<page, fetches, dirExists, now, loader>>

\* A mutant of CleanupResponses: the unlink error escapes and no response is sent.
CleanupResponsesThrows(unlinkOk) ==
  IF unlinkOk THEN <<JsonError(500, "Error saving uploaded file.")>> ELSE <<>>

\* A mutant of CleanupResponses: the unlink error is reported in place of the
\* rename error.
CleanupResponsesEscalates(unlinkOk) ==
  IF unlinkOk
  THEN <<JsonError(500, "Error saving uploaded file.")>>
  ELSE <<JsonError(500, "Error deleting temporary file.")>>

\* What handler sends after its cleanup, whether the unlink threw or not.
CleanupResponses(unlinkOk) == <<JsonError(500, "Error saving uploaded file.")>>

\* handler's catch (renameError): try { fs.unlinkSync(oldPath) } catch { log },
\* then the 500.
Cleanup(r) ==
  /\ req[r].pc = "cleanup"
  /\ \E unlinkOk \in BOOLEAN :
       /\ files' = IF unlinkOk THEN Unlinked(files, req[r].oldPath) ELSE files
       /\ req' = [req EXCEPT ![r] =
            [@ EXCEPT !.pc = "done",
                      !.nUnlink = @ + 1,
                      !.unlinkFailed = ~unlinkOk,
                      !.log = @ \cup (IF unlinkOk THEN {} ELSE {"Error deleting temporary file:"}),
                      !.sent = @ \o CleanupResponses(unlinkOk)]]
  /\ UNCHANGED <<page, fetches, dirExists, now, loader>>

----------------------------------------------------------------------------
\* One step of the handling of request r.
Handle(r) ==
  \/ Reject(r)
  \/ EnsureDir(r)
  \/ Parse(r)
  \/ Validate(r)
  \/ Rename(r)
  \/ Cleanup(r)

Next ==
  \/ \E p \in Procs : LoadCheck(p)
  \/ \E p \in Procs : LoadMkdir(p)
  \/ \E r \in Reqs : Receive(r)
  \/ \E r \in Reqs : Handle(r)

Spec == Init /\ [][Next]_vars

\* A request that was received is handled to its end: the runtime runs every
\* callback and continuation that is ready, and the parser and the file system
\* answer.
FairSpec == Spec /\ \A r \in Reqs : WF_vars(Handle(r))

----------------------------------------------------------------------------
\* Vocabulary of the properties.

Done(r) == req[r].pc = "done"

\* The files of the upload directory that hold the bytes request r uploaded.
FilesOf(r) == {p \in DOMAIN files : files[p] = r}

\* The temporary files the parser writes.
TempPaths == {TempPath(uploadDir, r, i) : r \in Reqs, i \in 1..1}

\* The stored assets: the files of the directory under a generated name.
Stored == DOMAIN files \ TempPaths

\* The file parts of r's body sent under 'avatar'.
AvatarParts(r) == SelectSeq(req[r].body.parts, LAMBDA p : p.field = "avatar")

\* r is a POST whose body was parsed and holds a named file under 'avatar'.
ValidUpload(r) ==
  /\ req[r].method = "POST"
  /\ req[r].nParse = 1
  /\ req[r].err = ""
  /\ AvatarParts(r) # <<>>
  /\ Head(AvatarParts(r)).originalFilename # ""

ParseError(r) == req[r].nParse = 1 /\ req[r].err # ""

RenameOk(r) == req[r].nRename = 1 /\ ~req[r].renameErr

RenameFailed(r) == req[r].nRename = 1 /\ req[r].renameErr

Answered(r, status) == Len(req[r].sent) = 1 /\ req[r].sent[1].status = status

----------------------------------------------------------------------------
\* C1: every request that is received gets exactly one response, on every
\* path: at no time has a request got two, each of mkdir, parse, rename and
\* unlink is attempted at most once for it, and its handling ends with one
\* response sent.
C1_ExactlyOneResponse ==
  /\ [](\A r \in Reqs :
          /\ Len(req[r].sent) <= 1
          /\ req[r].nMkdir <= 1 /\ req[r].nParse <= 1
          /\ req[r].nRename <= 1 /\ req[r].nUnlink <= 1)
  /\ \A r \in Reqs :
       (req[r].pc # "idle") ~> (Done(r) /\ Len(req[r].sent) = 1)

\* The rename failed, the unlink failed too, and the one response is out.
C1_Witness ==
  \E r \in Reqs :
    Done(r) /\ RenameFailed(r) /\ req[r].unlinkFailed /\ Len(req[r].sent) = 1

C3_NoMutationOn400 ==
  \A r \in Reqs :
    (Done(r) /\ req[r].method = "POST" /\ req[r].nParse = 1 /\ req[r].err = ""
       /\ ~ValidUpload(r)) =>
      /\ Answered(r, 400)
      /\ FilesOf(r) = {}

\* C4: when the rename fails the response is 500 and the temporary upload is
\* not on disk after the response, in both handlers.
C4_TempGoneAfterFailedRename ==
  \A r \in Reqs :
    (Done(r) /\ RenameFailed(r)) =>
      /\ Answered(r, 500)
      /\ req[r].oldPath \notin DOMAIN files

\* C5: the upload directory is append-only for stored assets: no step removes
\* a stored asset or replaces its content, and the only file a step deletes
\* is the temporary upload of a request whose rename failed.
C5_AppendOnly ==
  [][/\ \A p \in Stored : p \in DOMAIN files' /\ files'[p] = files[p]
     /\ \A p \in DOMAIN files \ DOMAIN files' :
          \E r \in Reqs :
            /\ p = req[r].oldPath
            /\ files[p] = r
            /\ \/ req[r].pc = "rename" /\ RenameOk(r)'
               \/ RenameFailed(r)']_vars

\* C6: a request whose method is not POST is answered 405 'Method not
\* allowed' with Allow: POST, and nothing else happens for it: no mkdir, no
\* parse, no rename, no unlink, no file of its own.
C6_MethodNotAllowed ==
  \A r \in Reqs :
    (Done(r) /\ req[r].method # "POST") =>
      /\ req[r].sent =
           <<[status |-> 405, error |-> "Method not allowed", imageUrl |-> "",
              allow |-> <<"POST">>]>>
      /\ req[r].nMkdir = 0 /\ ~req[r].madeDir
      /\ req[r].nParse = 0
      /\ req[r].nRename = 0 /\ req[r].nUnlink = 0
      /\ FilesOf(r) = {}

C6_Witness ==
  \E r \in Reqs : Done(r) /\ req[r].method = "GET" /\ Answered(r, 405)

C8_ParseFailureNoEffect ==
  \A r \in Reqs :
    (Done(r) /\ ParseError(r)) =>
      /\ Answered(r, 500)
      /\ req[r].sent[1].error # ""
      /\ req[r].sent[1].imageUrl = ""
      /\ req[r].nRename = 0
      /\ FilesOf(r) = {}
      /\ ~req[r].madeDir

\* C8, amended: as above, but the effect on the upload directory that is ruled
\* out is on its files; the directory itself may have been created by the
\* request, by the App Router POST alone, which creates it before it parses.
C8_ParseFailure ==
  \A r \in Reqs :
    (Done(r) /\ ParseError(r)) =>
      /\ Answered(r, 500)
      /\ req[r].sent[1].error # ""
      /\ req[r].sent[1].imageUrl = ""
      /\ req[r].nRename = 0 /\ req[r].nUnlink = 0
      /\ FilesOf(r) = {}
      /\ req[r].madeDir => req[r].route = "app"

\* A body that could not be parsed, on either route, answered.
C8_Witness ==
  \E r1, r2 \in Reqs :
    /\ Done(r1) /\ ParseError(r1) /\ req[r1].route = "pages"
    /\ Done(r2) /\ ParseError(r2) /\ req[r2].route = "app"

\* C9: after a failed rename the response is one and the same whether the
\* unlink of the temporary upload succeeds or fails: 500 with the message of
\* the persistence error; a failed unlink is logged and nothing more.
C9_CleanupFailureSwallowed ==
  \A r \in Reqs :
    (Done(r) /\ RenameFailed(r)) =>
      /\ req[r].sent =
           <<[status |-> 500, imageUrl |-> "", allow |-> <<>>,
              error |-> IF req[r].route = "pages"
                        THEN "Error saving uploaded file."
                        ELSE "Upload failed: EXDEV: cross-device link not permitted, rename"]>>
      /\ req[r].unlinkFailed =>
           \E line \in req[r].log : Includes(line, "Error deleting temporary file")

\* The rename failed and so did the unlink, and the response is out.
C9_Witness ==
  \E r \in Reqs :
    Done(r) /\ RenameFailed(r) /\ req[r].nUnlink = 1 /\ req[r].unlinkFailed
      /\ Answered(r, 500)

\* C10: creating the upload directory never fails, in a module load or in a
\* request, whoever else created it in between; and every POST is parsed, and
\* every upload stored, with the directory existing.
C10_EnsureDirIdempotent ==
  /\ \A p \in Procs : loader[p] # "failed"
  /\ \A r \in Reqs :
       /\ ~req[r].mkdirFailed
       /\ (req[r].method = "POST" /\ req[r].pc \notin {"idle", "handler"}) => dirExists
       /\ (Done(r) /\ RenameOk(r)) => dirExists /\ Answered(r, 200)

\* The directory was missing; a module load found it missing and is about to
\* create it, it exists by now, and a request that called mkdir on the
\* existing directory has stored its upload.
C10_Witness ==
  /\ dirExists
  /\ \E p \in Procs : loader[p] = "mkdir"
  /\ \E r \in Reqs :
       /\ req[r].route = "app" /\ req[r].nMkdir = 1 /\ ~req[r].madeDir
       /\ Done(r) /\ RenameOk(r)

----------------------------------------------------------------------------
\* The upload test page (UploadTestClientPage, and UploadTestPage with the
\* same code): the state file, message, uploadedImageUrl, and the fetches of
\* handleSubmit, each settled in its own time.

\* What a fetch of /api/upload-avatar can settle with: a response of the
\* route with its statusText, a response of something in front of it that
\* carries no error, or a rejection.
FetchOutcomes ==
  {[kind |-> "response", res |-> Success(UniqueFilename(t, n)), statusText |-> ""] :
     t \in 1..MaxTime, n \in Filenames} \cup
  {[kind |-> "response", res |-> JsonError(400, "No file uploaded."), statusText |-> ""],
   [kind |-> "response", res |-> JsonError(500, "Error saving uploaded file."), statusText |-> ""],
   [kind |-> "response", res |-> JsonError(502, ""), statusText |-> "Bad Gateway"],
   [kind |-> "response", res |-> JsonError(502, ""), statusText |-> ""],
   [kind |-> "throw", message |-> "Failed to fetch"]}

\* res.ok
Ok(res) == res.status >= 200 /\ res.status <= 299

\* a || b || c on strings
OrElse(a, b, c) == IF a # "" THEN a ELSE IF b # "" THEN b ELSE c

\* A mutant of Settled: a failed upload leaves the image of an earlier one.
SettledKeepsImage(pg, outcome) ==
  IF outcome.kind = "response" /\ Ok(outcome.res)
  THEN [pg EXCEPT !.message = "Upload successful!",
                  !.uploadedImageUrl = outcome.res.imageUrl,
                  !.last = "ok"]
  ELSE [pg EXCEPT !.message = "Upload failed", !.last = "failed"]

\* handleSubmit after await fetch(...): the state after the response, or the
\* rejection, was handled.
Settled(pg, outcome) ==
  IF outcome.kind = "throw"
  THEN [pg EXCEPT !.message = "Error uploading: " \o outcome.message,
                  !.uploadedImageUrl = "",
                  !.last = "thrown"]
  ELSE IF Ok(outcome.res)
       THEN [pg EXCEPT !.message = "Upload successful!",
                       !.uploadedImageUrl = outcome.res.imageUrl,
                       !.last = "ok"]
       ELSE [pg EXCEPT !.message = "Upload failed: " \o
                                     OrElse(outcome.res.error, outcome.statusText, "Unknown error"),
                       !.uploadedImageUrl = "",
                       !.last = "failed"]

\* handleFileChange: a file is chosen (picked # Null) or the dialog cancelled.
HandleFileChange ==
  /\ \E picked \in Filenames \cup {Null} :
       page' = IF picked # Null
               THEN [page EXCEPT !.file = picked, !.message = "", !.last = "change"]
               ELSE [page EXCEPT !.file = Null, !.last = "change"]
  /\ UNCHANGED <<dirExists, files, now, loader, req, fetches>>

\* handleSubmit up to its await: without a file only the message is set; with
\* one the image is cleared and the fetch starts.
HandleSubmit ==
  /\ IF page.file = Null
     THEN /\ page' = [page EXCEPT !.message = "Please select a file to upload.",
                                  !.last = "submit"]
          /\ fetches' = fetches
     ELSE \E i \in Submits :
          /\ fetches[i].state = "none"
          /\ \A j \in Submits : j < i => fetches[j].state # "none"
          /\ page' = [page EXCEPT !.message = "Uploading...",
                                  !.uploadedImageUrl = "",
                                  !.last = "submit"]
          /\ fetches' = [fetches EXCEPT ![i] = [state |-> "pending", file |-> page.file]]
  /\ UNCHANGED <<dirExists, files, now, loader, req>>

\* The fetch of submit i settles and handleSubmit runs on.
Settle(i) ==
  /\ fetches[i].state = "pending"
  /\ \E outcome \in FetchOutcomes :
       /\ page' = Settled(page, outcome)
       /\ fetches' = [fetches EXCEPT ![i] =
            [state |-> "settled", file |-> @.file, outcome |-> outcome]]
  /\ UNCHANGED <<dirExists, files, now, loader, req>>

PageNext ==
  \/ HandleFileChange
  \/ HandleSubmit
  \/ \E i \in Submits : Settle(i)

PageSpec == Init /\ [][PageNext]_vars

\* The imageUrls of the responses that were ok.
OkImageUrls ==
  {fetches[i].outcome.res.imageUrl :
     i \in {j \in Submits : /\ fetches[j].state = "settled"
                            /\ fetches[j].outcome.kind = "response"
                            /\ Ok(fetches[j].outcome.res)}}

\* C11: in the upload test page uploadedImageUrl is always empty or the
\* imageUrl of a response that was ok, and it is empty right after a submit
\* with a file selected, a response that was not ok, and a fetch that threw;
\* a submit with no file selected starts no fetch and changes the message
\* alone.
C11_UploadedImageUrl ==
  /\ [](/\ page.uploadedImageUrl = "" \/ page.uploadedImageUrl \in OkImageUrls
        /\ (page.last = "submit" /\ page.file # Null) => page.uploadedImageUrl = ""
        /\ page.last \in {"failed", "thrown"} => page.uploadedImageUrl = "")
  /\ [][(page'.last = "submit" /\ page.file = Null) =>
          /\ fetches' = fetches
          /\ page'.file = page.file
          /\ page'.uploadedImageUrl = page.uploadedImageUrl]_vars

\* Two submits overlap and the later one's response came first: its image is
\* shown while the earlier fetch is still pending.
C11_Witness ==
  \E i, j \in Submits :
    /\ i < j
    /\ fetches[i].state = "pending"
    /\ fetches[j].state = "settled"
    /\ page.uploadedImageUrl # ""
    /\ page.uploadedImageUrl \in OkImageUrls

====
